---- MODULE Spec2Model ----
(***************************************************************************)
(* A model of the scientific plotting suite: the chart functions and their *)
(* scripts (standalone and family), check_and_load_csv, the grid           *)
(* reconstruction of the surface / wireframe / contour plots, the          *)
(* orchestrator run_all_plots.py, and the correlation coefficient of the   *)
(* basic scatter plot, the grouped charts and the horizontal bar chart.    *)
(*                                                                         *)
(* The module holds seven state machines over one set of variables; each   *)
(* specification drives one machine and leaves the others idle:            *)
(*   Spec        a script (standalone or family) running its chart         *)
(*               functions                                                 *)
(*   SpecLoad    one call of check_and_load_csv                            *)
(*   SpecGrid    one run of the grid reconstruction loop (SpecGridCopies:  *)
(*               in any of its six copies)                                 *)
(*   SpecOrch    one run of the orchestrator (SpecOrchFair: with fairness) *)
(*   SpecCorr    one computation of np.corrcoef(x, y)[0, 1]                *)
(*   SpecGrouped one grouped chart drawing a series per label              *)
(*   SpecHbar    the horizontal bar chart sorting and drawing its rows     *)
(***************************************************************************)
EXTENDS Integers, Sequences, FiniteSets, TLC

VARIABLES
    script,         \* index into Scripts: the script being run
    k,              \* position in the script's list of chart functions
    pc,             \* position inside main / the chart function
    call,           \* what the current chart call has seen and done
    success_count,  \* main's success counter
    dataBad,        \* some chart of this run had a missing / invalid CSV
    exitCode,       \* process exit code, -1 while running
    mainLog,        \* the chart functions main has called, and their results
    load,           \* check_and_load_csv: the call and its outcome
    grid,           \* grid reconstruction: input table, loop indices, Z
    orch,           \* orchestrator state
    corr,           \* the correlation annotation: the data and the coefficient
    grouped,        \* a grouped chart: the table, its groups and the series drawn
    hbar            \* the horizontal bar chart: the table and the bars drawn

vars == <<script, k, pc, call, success_count, dataBad, exitCode, mainLog, load, grid, orch, corr, grouped, hbar>>

scriptVars == <<script, k, pc, call, success_count, dataBad, exitCode, mainLog>>

(***************************************************************************)
(* Exceptions.  Only the classes the handlers distinguish are modelled,    *)
(* with Python's / pandas' subclass relation.                              *)
(***************************************************************************)
Mro ==
    [ FileNotFoundError |-> {"FileNotFoundError", "OSError", "Exception"},
      OSError           |-> {"OSError", "Exception"},
      EmptyDataError    |-> {"EmptyDataError", "ValueError", "Exception"},
      ValueError        |-> {"ValueError", "Exception"},
      TypeError         |-> {"TypeError", "Exception"},
      UnboundLocalError |-> {"UnboundLocalError", "Exception"},
      TimeoutExpired    |-> {"TimeoutExpired", "Exception"} ]

IsInstance(e, cls) == cls \in Mro[e]

\* what pd.read_csv can raise on a path that exists: an empty file, a
\* malformed one (ParserError and UnicodeDecodeError are ValueErrors), an
\* unreadable one or a directory (OSError)
ReadErrors == {"EmptyDataError", "ValueError", "OSError"}

\* what the plotting calls between the column check and save_plot can raise
RenderErrors == {"ValueError", "TypeError", "OSError"}

\* what the inner try block of the surface, wireframe and contour functions
\* (grid reconstruction and the drawing of the grid) can raise
GridErrors == {"ValueError", "TypeError"}

\* what os.makedirs / fig.savefig can raise
SaveErrors == {"OSError", "ValueError", "FileNotFoundError"}

(***************************************************************************)
(* The chart functions.  style "A" = loads through check_and_load_csv and  *)
(* handles (FileNotFoundError, ValueError); style "B" = inline checks and  *)
(* a catch-all handler.                                                    *)
(***************************************************************************)
\* the chart functions of line_chart.py and of its standalone scripts
LineCharts ==
    [ basic_line_chart      |-> [style |-> "A", required |-> <<"time", "amplitude">>],
      multiple_line_chart   |-> [style |-> "A", required |-> <<"time", "series_a", "series_b", "series_c">>],
      line_chart_with_ci    |-> [style |-> "A", required |-> <<"time", "mean", "lower_ci", "upper_ci">>] ]

\* the chart functions of bar_chart.py and of its standalone scripts
BarCharts ==
    [ basic_bar_chart       |-> [style |-> "A", required |-> <<"category", "value">>],
      grouped_bar_chart     |-> [style |-> "A", required |-> <<"category", "group_a", "group_b", "group_c">>],
      stacked_bar_chart     |-> [style |-> "A", required |-> <<"category", "part_a", "part_b", "part_c">>],
      horizontal_bar_chart  |-> [style |-> "A", required |-> <<"item", "score">>] ]

\* the chart functions of scatter_plot.py and of its standalone scripts
ScatterCharts ==
    [ basic_scatter_plot    |-> [style |-> "A", required |-> <<"x", "y">>],
      colored_scatter_plot  |-> [style |-> "A", required |-> <<"x", "y", "color_value">>],
      sized_scatter_plot    |-> [style |-> "A", required |-> <<"x", "y", "size_value">>],
      categorical_scatter_plot |-> [style |-> "A", required |-> <<"x", "y", "category">>],
      correlation_matrix_scatter |-> [style |-> "A", required |-> <<"var1", "var2", "var3", "var4">>] ]

\* the chart functions of box_plot.py and of its standalone scripts
BoxCharts ==
    [ basic_box_plot        |-> [style |-> "B", required |-> <<"group", "value">>],
      violin_plot           |-> [style |-> "B", required |-> <<"category", "measurement">>],
      grouped_box_plot      |-> [style |-> "B", required |-> <<"time_point", "condition", "response">>],
      notched_box_plot      |-> [style |-> "B", required |-> <<"method", "performance">>],
      horizontal_box_plot   |-> [style |-> "B", required |-> <<"algorithm", "execution_time">>] ]

\* the chart functions of histogram.py and of its standalone scripts
HistogramCharts ==
    [ basic_histogram       |-> [style |-> "B", required |-> <<"values">>],
      multiple_histograms   |-> [style |-> "B", required |-> <<"group_a", "group_b", "group_c">>],
      stacked_histogram     |-> [style |-> "B", required |-> <<"value", "category">>],
      histogram_2d          |-> [style |-> "B", required |-> <<"x", "y">>],
      distribution_comparison |-> [style |-> "B", required |-> <<"observed", "theoretical">>] ]

\* the chart functions of 3d_plot.py and of its standalone scripts
Plot3dCharts ==
    [ surface_plot_3d       |-> [style |-> "B", required |-> <<"x", "y", "z">>],
      scatter_plot_3d       |-> [style |-> "B", required |-> <<"x", "y", "z", "group">>],
      wireframe_plot_3d     |-> [style |-> "B", required |-> <<"x", "y", "z">>],
      bar_plot_3d           |-> [style |-> "B", required |-> <<"x_pos", "y_pos", "height">>],
      contour_plot_3d       |-> [style |-> "B", required |-> <<"x", "y", "z">>],
      parametric_3d_plot    |-> [style |-> "B", required |-> <<"t", "x", "y", "z", "curve_type">>] ]

Charts ==
    LineCharts @@ BarCharts @@ ScatterCharts @@ BoxCharts @@ HistogramCharts @@ Plot3dCharts

ChartNames == DOMAIN Charts

\* the chart functions that rebuild a grid from the (x, y, z) rows inside an
\* inner try block of their own
GridCharts == {"surface_plot_3d", "wireframe_plot_3d", "contour_plot_3d"}

\* the directory of the family a chart function belongs to.  Its scripts
\* are in <family>/code and are run with that directory as the working
\* directory (they import common_utils through the relative ../../utils)
FamilyDir(c) ==
    CASE c \in DOMAIN LineCharts      -> "line_chart"
      [] c \in DOMAIN BarCharts       -> "bar_chart"
      [] c \in DOMAIN ScatterCharts   -> "scatter_plot"
      [] c \in DOMAIN BoxCharts       -> "box_plot"
      [] c \in DOMAIN HistogramCharts -> "histogram"
      [] c \in DOMAIN Plot3dCharts    -> "3d_plot"

\* csv_path of each chart function: the file name under ../data
DataFiles ==
    [ basic_line_chart      |-> "basic_line_data.csv",
      multiple_line_chart   |-> "multiple_line_data.csv",
      line_chart_with_ci    |-> "confidence_interval_data.csv",
      basic_bar_chart       |-> "basic_bar_data.csv",
      grouped_bar_chart     |-> "grouped_bar_data.csv",
      stacked_bar_chart     |-> "stacked_bar_data.csv",
      horizontal_bar_chart  |-> "horizontal_bar_data.csv",
      basic_scatter_plot    |-> "basic_scatter_data.csv",
      colored_scatter_plot  |-> "colored_scatter_data.csv",
      sized_scatter_plot    |-> "sized_scatter_data.csv",
      categorical_scatter_plot |-> "categorical_scatter_data.csv",
      correlation_matrix_scatter |-> "correlation_matrix_data.csv",
      basic_box_plot        |-> "basic_box_data.csv",
      violin_plot           |-> "violin_plot_data.csv",
      grouped_box_plot      |-> "grouped_box_data.csv",
      notched_box_plot      |-> "notched_box_data.csv",
      horizontal_box_plot   |-> "horizontal_box_data.csv",
      basic_histogram       |-> "basic_histogram_data.csv",
      multiple_histograms   |-> "multiple_histogram_data.csv",
      stacked_histogram     |-> "stacked_histogram_data.csv",
      histogram_2d          |-> "2d_histogram_data.csv",
      distribution_comparison |-> "distribution_comparison_data.csv",
      surface_plot_3d       |-> "3d_surface_data.csv",
      scatter_plot_3d       |-> "3d_scatter_data.csv",
      wireframe_plot_3d     |-> "3d_wireframe_data.csv",
      bar_plot_3d           |-> "3d_bar_data.csv",
      contour_plot_3d       |-> "3d_contour_data.csv",
      parametric_3d_plot    |-> "parametric_3d_data.csv" ]

\* the file name under ../plot each chart function passes to save_plot
PlotFiles ==
    [ basic_line_chart      |-> "basic_line_chart.png",
      multiple_line_chart   |-> "multiple_line_chart.png",
      line_chart_with_ci    |-> "line_chart_with_ci.png",
      basic_bar_chart       |-> "basic_bar_chart.png",
      grouped_bar_chart     |-> "grouped_bar_chart.png",
      stacked_bar_chart     |-> "stacked_bar_chart.png",
      horizontal_bar_chart  |-> "horizontal_bar_chart.png",
      basic_scatter_plot    |-> "basic_scatter_plot.png",
      colored_scatter_plot  |-> "colored_scatter_plot.png",
      sized_scatter_plot    |-> "sized_scatter_plot.png",
      categorical_scatter_plot |-> "categorical_scatter_plot.png",
      correlation_matrix_scatter |-> "correlation_matrix_scatter.png",
      basic_box_plot        |-> "basic_box_plot.png",
      violin_plot           |-> "violin_plot.png",
      grouped_box_plot      |-> "grouped_box_plot.png",
      notched_box_plot      |-> "notched_box_plot.png",
      horizontal_box_plot   |-> "horizontal_box_plot.png",
      basic_histogram       |-> "basic_histogram.png",
      multiple_histograms   |-> "multiple_histograms.png",
      stacked_histogram     |-> "stacked_histogram.png",
      histogram_2d          |-> "2d_histogram.png",
      distribution_comparison |-> "distribution_comparison.png",
      surface_plot_3d       |-> "3d_surface_plot.png",
      scatter_plot_3d       |-> "3d_scatter_plot.png",
      wireframe_plot_3d     |-> "3d_wireframe_plot.png",
      bar_plot_3d           |-> "3d_bar_plot.png",
      contour_plot_3d       |-> "3d_contour_plot.png",
      parametric_3d_plot    |-> "parametric_3d_plot.png" ]

\* no file
NoPath == <<>>

\* "../data/<name>.csv" seen from <family>/code: the file chart c reads
CsvPath(c) == <<FamilyDir(c), "data", DataFiles[c]>>

PngPathOfFamily(c) == <<FamilyDir(c), "plot", "plot.png">>

\* "../plot/<name>.png" seen from <family>/code: the file chart c writes
PngPath(c) == <<FamilyDir(c), "plot", PlotFiles[c]>>

\* the six family scripts the orchestrator launches, each with the chart
\* functions its main calls, in the order main calls them
FamilyScripts ==
    << [name |-> "line_chart.py", family |-> TRUE,
        charts |-> <<"basic_line_chart", "multiple_line_chart", "line_chart_with_ci">>],
       [name |-> "bar_chart.py", family |-> TRUE,
        charts |-> <<"basic_bar_chart", "grouped_bar_chart", "stacked_bar_chart",
                     "horizontal_bar_chart">>],
       [name |-> "scatter_plot.py", family |-> TRUE,
        charts |-> <<"basic_scatter_plot", "colored_scatter_plot", "sized_scatter_plot",
                     "categorical_scatter_plot", "correlation_matrix_scatter">>],
       [name |-> "box_plot.py", family |-> TRUE,
        charts |-> <<"basic_box_plot", "violin_plot", "grouped_box_plot",
                     "notched_box_plot", "horizontal_box_plot">>],
       [name |-> "histogram.py", family |-> TRUE,
        charts |-> <<"basic_histogram", "multiple_histograms", "stacked_histogram",
                     "histogram_2d", "distribution_comparison">>],
       [name |-> "3d_plot.py", family |-> TRUE,
        charts |-> <<"surface_plot_3d", "scatter_plot_3d", "wireframe_plot_3d",
                     "bar_plot_3d", "contour_plot_3d", "parametric_3d_plot">>] >>

\* the standalone scripts: one chart function each, main returns its result
StandaloneOrder ==
    << "basic_line_chart", "multiple_line_chart", "line_chart_with_ci",
       "basic_bar_chart", "grouped_bar_chart", "stacked_bar_chart", "horizontal_bar_chart",
       "basic_scatter_plot", "colored_scatter_plot", "sized_scatter_plot",
       "categorical_scatter_plot", "correlation_matrix_scatter",
       "basic_box_plot", "violin_plot", "grouped_box_plot", "notched_box_plot",
       "horizontal_box_plot",
       "basic_histogram", "multiple_histograms", "stacked_histogram", "histogram_2d",
       "distribution_comparison",
       "surface_plot_3d", "scatter_plot_3d", "wireframe_plot_3d", "bar_plot_3d",
       "contour_plot_3d", "parametric_3d_plot" >>

StandaloneScripts ==
    [ n \in 1..Len(StandaloneOrder) |->
        [name |-> StandaloneOrder[n], family |-> FALSE, charts |-> <<StandaloneOrder[n]>>] ]

Scripts == FamilyScripts \o StandaloneScripts

CurScript == Scripts[script]

CurChart == Charts[CurScript.charts[k]]

(***************************************************************************)
(* Helpers shared by the chart functions and check_and_load_csv.           *)
(***************************************************************************)
MissingColumnsAll(required, columns) == required

RECURSIVE MissingColumns(_, _)
\* [col for col in required_columns if col not in df.columns]
MissingColumns(required, columns) ==
    IF required = <<>> THEN <<>>
    ELSE (IF Head(required) \notin columns THEN <<Head(required)>> ELSE <<>>)
         \o MissingColumns(Tail(required), columns)

Range(s) == {s[n] : n \in DOMAIN s}

\* the column sets a loaded CSV may have: any subset of the required
\* columns, with or without a column the chart does not ask for
TableColumns(required) ==
    {c \cup extra : c \in SUBSET Range(required), extra \in {{}, {"other"}}}

ReraisedAsIs(e) == e

\* the except clauses of check_and_load_csv around read_csv and the column
\* check: EmptyDataError becomes ValueError, anything else is re-raised
Reraised(e) == IF IsInstance(e, "EmptyDataError") THEN "ValueError" ELSE e

\* the exception a style-"A" chart sees is what check_and_load_csv lets out;
\* a style-"B" chart sees what read_csv raised
Seen(style, e) == IF style = "A" THEN Reraised(e) ELSE e

CatchesNoValue(style, e) ==
    IF style = "A"
    THEN IsInstance(e, "FileNotFoundError")
    ELSE IsInstance(e, "FileNotFoundError") \/ IsInstance(e, "Exception")

\* the handlers of a chart function: does one of its except clauses take e?
Catches(style, e) ==
    IF style = "A"
    THEN IsInstance(e, "FileNotFoundError") \/ IsInstance(e, "ValueError")
    ELSE IsInstance(e, "FileNotFoundError") \/ IsInstance(e, "Exception")

ExitStatusZero(success) == 0

ExitStatusInverted(success) == IF success THEN 1 ELSE 0

\* sys.exit(0 if success else 1)
ExitStatus(success) == IF success THEN 0 ELSE 1

(***************************************************************************)
(* The script machine.                                                     *)
(***************************************************************************)
NoCall ==
    [ chart |-> "none", exists |-> "unchecked", read |-> "no", table |-> {}, missing |-> <<>>,
      csv |-> NoPath, file |-> NoPath, gridExc |-> "none", fallback |-> "no",
      exc |-> "none", styled |-> FALSE, figure |-> FALSE, rendered |-> FALSE,
      saveCalled |-> FALSE, saved |-> FALSE, ret |-> "none" ]

\* what main has done so far: the chart functions it has called and what
\* each call returned (TRUE for True), in call order
NoLog == [called |-> <<>>, rets |-> <<>>]

IdleScript ==
    /\ script = 0 /\ k = 0 /\ pc = "idle" /\ call = NoCall
    /\ success_count = 0 /\ dataBad = FALSE /\ exitCode = -1
    /\ mainLog = NoLog

IdleLoad == load = [phase |-> "idle"]

IdleGrid == grid = [phase |-> "idle"]

IdleOrch == orch = [phase |-> "idle"]

IdleCorr == corr = [phase |-> "idle"]

IdleGrouped == grouped = [phase |-> "idle"]

IdleHbar == hbar = [phase |-> "idle"]

Init ==
    /\ script \in 1..Len(Scripts)
    /\ k = 1
    /\ pc = "main"
    /\ call = NoCall
    /\ success_count = 0
    /\ dataBad = FALSE
    /\ exitCode = -1
    /\ mainLog = NoLog
    /\ IdleLoad /\ IdleGrid /\ IdleOrch /\ IdleCorr /\ IdleGrouped /\ IdleHbar

\* an exception e raised inside the chart function's try block: a matching
\* except clause prints and returns False, otherwise e leaves the function
Raise(e, c) ==
    IF Catches(CurChart.style, e)
    THEN /\ call' = [c EXCEPT !.exc = e, !.ret = "False"]
         /\ pc' = "returned"
    ELSE /\ call' = [c EXCEPT !.exc = e, !.ret = "raised"]
         /\ pc' = "uncaught"

\* main calls the k-th chart function of the script
CallChart ==
    /\ pc = "main"
    /\ k <= Len(CurScript.charts)
    /\ pc' = "exists"
    /\ call' = [NoCall EXCEPT !.chart = CurScript.charts[k]]
    /\ mainLog' = [mainLog EXCEPT !.called = Append(@, CurScript.charts[k])]
    /\ UNCHANGED <<script, k, success_count, dataBad, exitCode, load, grid, orch, corr, grouped, hbar>>

\* if not os.path.exists(csv_path): raise FileNotFoundError
CheckExists ==
    /\ pc = "exists"
    /\ \E e \in BOOLEAN :
         IF e
         THEN /\ call' = [call EXCEPT !.exists = "yes"]
              /\ pc' = "read"
              /\ UNCHANGED dataBad
         ELSE /\ Raise("FileNotFoundError", [call EXCEPT !.exists = "no"])
              /\ dataBad' = TRUE
    /\ UNCHANGED <<script, k, success_count, exitCode, mainLog, load, grid, orch, corr, grouped, hbar>>

\* pd.read_csv(csv_path)
ReadCsv ==
    /\ pc = "read"
    /\ \/ \E cols \in TableColumns(CurChart.required) :
            /\ call' = [call EXCEPT !.read = "ok", !.table = cols,
                                    !.csv = CsvPath(call.chart)]
            /\ pc' = "columns"
            /\ UNCHANGED dataBad
       \/ \E e \in ReadErrors :
            /\ Raise(Seen(CurChart.style, e),
                     [call EXCEPT !.read = "failed", !.csv = CsvPath(call.chart)])
            /\ dataBad' = TRUE
    /\ UNCHANGED <<script, k, success_count, exitCode, mainLog, load, grid, orch, corr, grouped, hbar>>

CheckColumnsDeferred ==
    /\ pc = "columns"
    /\ call' = [call EXCEPT !.missing = MissingColumns(CurChart.required, call.table)]
    /\ pc' = "style"
    /\ UNCHANGED <<script, k, success_count, dataBad, exitCode, mainLog, load, grid, orch, corr, grouped, hbar>>

\* missing_columns = [...]; if missing_columns: raise ValueError
CheckColumns ==
    /\ pc = "columns"
    /\ LET missing == MissingColumns(CurChart.required, call.table)
       IN  IF missing # <<>>
           THEN /\ Raise(Seen(CurChart.style, "ValueError"), [call EXCEPT !.missing = missing])
                /\ dataBad' = TRUE
           ELSE /\ call' = call
                /\ pc' = "style"
                /\ UNCHANGED dataBad
    /\ UNCHANGED <<script, k, success_count, exitCode, mainLog, load, grid, orch, corr, grouped, hbar>>

\* set_scientific_style() and the creation of the figure
CreateFigure ==
    /\ pc = "style"
    /\ call' = [call EXCEPT !.styled = TRUE, !.figure = TRUE]
    /\ pc' = IF call.chart \in GridCharts THEN "grid" ELSE "render"
    /\ UNCHANGED <<script, k, success_count, dataBad, exitCode, mainLog, load, grid, orch, corr, grouped, hbar>>

BuildGridUnprotected ==
    /\ pc = "grid"
    /\ \/ /\ call' = call
          /\ pc' = "render"
       \/ \E e \in GridErrors : Raise(e, [call EXCEPT !.gridExc = e])
    /\ UNCHANGED <<script, k, success_count, dataBad, exitCode, mainLog, load, grid, orch, corr, grouped, hbar>>

\* the inner try block of the surface, wireframe and contour functions: the
\* grid is rebuilt and drawn; except Exception: the raw points are drawn
\* with ax.scatter(x, y, z, ...) instead, and what the scatter raises is
\* raised inside the outer try block
BuildGrid ==
    /\ pc = "grid"
    /\ \/ /\ call' = call
          /\ pc' = "render"
       \/ \E e \in GridErrors :
            \/ /\ call' = [call EXCEPT !.gridExc = e, !.fallback = "drawn"]
               /\ pc' = "render"
            \/ \E f \in RenderErrors :
                 Raise(f, [call EXCEPT !.gridExc = e, !.fallback = "failed"])
    /\ UNCHANGED <<script, k, success_count, dataBad, exitCode, mainLog, load, grid, orch, corr, grouped, hbar>>

\* the plotting calls up to save_plot
Render ==
    /\ pc = "render"
    /\ \/ /\ call' = [call EXCEPT !.rendered = TRUE]
          /\ pc' = "save"
       \/ \E e \in RenderErrors : Raise(e, call)
    /\ UNCHANGED <<script, k, success_count, dataBad, exitCode, mainLog, load, grid, orch, corr, grouped, hbar>>

SavePlotUnchecked ==
    /\ pc = "save"
    /\ \/ /\ call' = [call EXCEPT !.saveCalled = TRUE, !.saved = TRUE, !.ret = "True",
                                    !.file = PngPath(call.chart)]
          /\ pc' = "returned"
       \/ \E e \in SaveErrors :
            /\ call' = [call EXCEPT !.saveCalled = TRUE, !.ret = "True"]
            /\ pc' = "returned"
    /\ UNCHANGED <<script, k, success_count, dataBad, exitCode, mainLog, load, grid, orch, corr, grouped, hbar>>

\* save_plot(fig, path); plt.close(); return True
SavePlot ==
    /\ pc = "save"
    /\ \/ /\ call' = [call EXCEPT !.saveCalled = TRUE, !.saved = TRUE, !.ret = "True",
                                    !.file = PngPath(call.chart)]
          /\ pc' = "returned"
       \/ \E e \in SaveErrors : Raise(e, [call EXCEPT !.saveCalled = TRUE])
    /\ UNCHANGED <<script, k, success_count, dataBad, exitCode, mainLog, load, grid, orch, corr, grouped, hbar>>

\* a standalone script: success = main(); sys.exit(0 if success else 1)
StandaloneExit ==
    /\ pc = "returned"
    /\ ~CurScript.family
    /\ exitCode' = ExitStatus(call.ret = "True")
    /\ success_count' = IF call.ret = "True" THEN 1 ELSE 0
    /\ mainLog' = [mainLog EXCEPT !.rets = Append(@, call.ret = "True")]
    /\ pc' = "exited"
    /\ UNCHANGED <<script, k, call, dataBad, load, grid, orch, corr, grouped, hbar>>

\* a family script's main: if create_x(): success_count += 1, then the next
FamilyNext ==
    /\ pc = "returned"
    /\ CurScript.family
    /\ success_count' = IF call.ret = "True" THEN success_count + 1 ELSE success_count
    /\ k' = k + 1
    /\ mainLog' = [mainLog EXCEPT !.rets = Append(@, call.ret = "True")]
    /\ pc' = "main"
    /\ UNCHANGED <<script, call, dataBad, exitCode, load, grid, orch, corr, grouped, hbar>>

\* a family script's main ends: it prints the summary; the script calls
\* main() and drops its result, so the interpreter exits with 0
FamilyExit ==
    /\ pc = "main"
    /\ CurScript.family
    /\ k > Len(CurScript.charts)
    /\ exitCode' = 0
    /\ pc' = "exited"
    /\ UNCHANGED <<script, k, call, success_count, dataBad, mainLog, load, grid, orch, corr, grouped, hbar>>

\* an exception left the chart function: nothing above it has a handler,
\* the interpreter prints the traceback and exits with 1
Uncaught ==
    /\ pc = "uncaught"
    /\ exitCode' = 1
    /\ pc' = "exited"
    /\ UNCHANGED <<script, k, call, success_count, dataBad, mainLog, load, grid, orch, corr, grouped, hbar>>

Next ==
    \/ CallChart
    \/ CheckExists
    \/ ReadCsv
    \/ CheckColumns
    \/ CreateFigure
    \/ BuildGrid
    \/ Render
    \/ SavePlot
    \/ StandaloneExit
    \/ FamilyNext
    \/ FamilyExit
    \/ Uncaught

Spec == Init /\ [][Next]_vars

(***************************************************************************)
(* check_and_load_csv(csv_path, required_columns, data_description) as one *)
(* call: the path exists or not, read_csv yields a table or raises.        *)
(***************************************************************************)
\* the callers of check_and_load_csv: the line, bar and scatter charts
LoadSites == {c \in ChartNames : Charts[c].style = "A"}

\* the body of check_and_load_csv on a path that exists or not, where
\* read_csv raises readErr or ("none") yields a table with these columns
CheckAndLoadCsv(exists, readErr, columns, required) ==
    IF ~exists
    THEN [kind |-> "raise", exc |-> "FileNotFoundError", named |-> <<>>, table |-> {}]
    ELSE IF readErr # "none"
    THEN [kind |-> "raise", exc |-> Reraised(readErr), named |-> <<>>, table |-> {}]
    ELSE LET missing_columns == MissingColumns(required, columns)
         IN  IF missing_columns # <<>>
             THEN [kind |-> "raise", exc |-> Reraised("ValueError"),
                   named |-> missing_columns, table |-> {}]
             ELSE [kind |-> "return", exc |-> "none", named |-> <<>>, table |-> columns]

InitLoad ==
    /\ IdleScript /\ IdleGrid /\ IdleOrch /\ IdleCorr /\ IdleGrouped /\ IdleHbar
    /\ \E c \in LoadSites : load = [phase |-> "call", site |-> c]

\* one call of check_and_load_csv from the chart load.site
LoadCall ==
    /\ load.phase = "call"
    /\ \E exists \in BOOLEAN, readErr \in ReadErrors \cup {"none"},
          columns \in TableColumns(Charts[load.site].required) :
         \* the file system decides: no read without the file, no table
         \* from a failed read
         /\ (~exists => readErr = "none" /\ columns = {})
         /\ (readErr # "none" => columns = {})
         /\ load' = [ phase |-> "done", site |-> load.site,
                      exists |-> exists, readErr |-> readErr, columns |-> columns,
                      out |-> CheckAndLoadCsv(exists, readErr, columns,
                                              Charts[load.site].required) ]
    /\ UNCHANGED <<scriptVars, grid, orch, corr, grouped, hbar>>

NextLoad == LoadCall

SpecLoad == InitLoad /\ [][NextLoad]_vars

(***************************************************************************)
(* The grid reconstruction of the surface, wireframe and contour plots.    *)
(* Numbers are exact rationals n/d in lowest terms; a float64 holds them   *)
(* unchanged (rounding is not modelled), an int64 holds whole numbers.     *)
(***************************************************************************)
MaxRows == 4

RECURSIVE Gcd(_, _)
Gcd(a, b) == IF b = 0 THEN a ELSE Gcd(b, a % b)

Abs(n) == IF n < 0 THEN -n ELSE n

\* the rational n/d (d > 0) in lowest terms
Rat(n, d) == LET g == Gcd(Abs(n), d) IN [n |-> n \div g, d |-> d \div g]

RatLess(a, b) == a.n * b.d < b.n * a.d

RatAdd(a, b) == Rat(a.n * b.d + b.n * a.d, a.d * b.d)

IsWhole(a) == a.d = 1

\* the values the x, y and z columns of the table take
XValues == {Rat(0, 1), Rat(1, 1)}

YValues == {Rat(0, 1), Rat(1, 1)}

ZValues == {Rat(-1, 2), Rat(1, 1)}

\* pandas reads a column as int64 if every value is written as a whole
\* number, as float64 otherwise ("1.0" makes a float64 column of whole values)
DtypesOf(values) ==
    IF \A v \in values : IsWhole(v) THEN {"int64", "float64"} ELSE {"float64"}

\* the tables read from the CSV: rows in file order
GridTables ==
    UNION { [1..n -> [x : XValues, y : YValues, z : ZValues]] : n \in 1..MaxRows }

RECURSIVE SortedSeq(_)
\* the elements of a set of numbers in ascending order
SortedSeq(S) ==
    IF S = {} THEN <<>>
    ELSE LET m == CHOOSE v \in S : \A w \in S : ~RatLess(w, v)
         IN  <<m>> \o SortedSeq(S \ {m})

RECURSIVE PdUnique(_)
\* Series.unique(): the distinct values in order of first appearance
PdUnique(column) ==
    IF column = <<>> THEN <<>>
    ELSE LET u == PdUnique(SubSeq(column, 1, Len(column) - 1))
             last == column[Len(column)]
         IN  IF last \in Range(u) THEN u ELSE Append(u, last)

UniqueUnsorted(column) == PdUnique(column)

\* np.unique(column): the distinct values, sorted
Unique(column) == SortedSeq(Range(column))

Column(rows, name) == [n \in DOMAIN rows |-> rows[n][name]]

RECURSIVE RatSum(_)
RatSum(column) ==
    IF column = <<>> THEN Rat(0, 1) ELSE RatAdd(Head(column), RatSum(Tail(column)))

\* np.mean(z)
Mean(column) == LET t == RatSum(column) IN Rat(t.n, t.d * Len(column))

\* mask = (data['x'] == xi) & (data['y'] == yi): the matching row numbers
Mask(rows, xi, yi) == {n \in DOMAIN rows : rows[n].x = xi /\ rows[n].y = yi}

\* data.loc[mask, 'z'].iloc[0]: z of the first matching row
FirstZ(rows, mask) == rows[CHOOSE n \in mask : \A m \in mask : n <= m].z

\* C conversion of a float to an integer: the fraction is dropped
TruncToZero(a) == IF a.n >= 0 THEN a.n \div a.d ELSE -((-a.n) \div a.d)

\* X, Y = np.meshgrid(x_unique, y_unique); Z = np.zeros_like(X): Z has the
\* dtype of X, which is the dtype of the x column
ZerosLikeDtype(xdtype, ydtype) == xdtype

\* Z[j, i] = v: the value is converted to the dtype of Z
Store(dtype, v) == IF dtype = "int64" THEN Rat(TruncToZero(v), 1) ELSE v

\* the value the loop body writes into cell (j, i)
CellValue(rows, xi, yi) ==
    LET mask == Mask(rows, xi, yi)
    IN  IF mask # {} THEN FirstZ(rows, mask) ELSE Mean(Column(rows, "z"))

\* the six copies of the reconstruction loop: in the three standalone
\* scripts and in the three chart functions of 3d_plot.py
GridSites ==
    { "3d_surface_plot.py", "3d_wireframe_plot.py", "3d_contour_plot.py",
      "3d_plot.py:surface", "3d_plot.py:wireframe", "3d_plot.py:contour" }

CellValueDrifted(site, rows, xi, yi) ==
    LET mask == Mask(rows, xi, yi)
    IN  IF site # "3d_plot.py:contour" THEN CellValue(rows, xi, yi)
        ELSE IF mask # {} THEN FirstZ(rows, mask) ELSE Rat(0, 1)

\* the loop body of the copy at site: the six copies are the same
\* statements, none of them depends on the site
CellValueAt(site, rows, xi, yi) == CellValue(rows, xi, yi)

InitGrid ==
    /\ IdleScript /\ IdleLoad /\ IdleOrch /\ IdleCorr /\ IdleGrouped /\ IdleHbar
    /\ \E rows \in GridTables :
       \E xdtype \in DtypesOf(Range(Column(rows, "x"))),
          ydtype \in DtypesOf(Range(Column(rows, "y"))) :
            grid = [phase |-> "start", site |-> "3d_surface_plot.py", rows |-> rows,
                    xdtype |-> xdtype, ydtype |-> ydtype]

\* the longest table given to every copy of the loop
MaxCopyRows == 3

\* the same tables given to each of the six copies
InitGridCopies ==
    /\ IdleScript /\ IdleLoad /\ IdleOrch /\ IdleCorr /\ IdleGrouped /\ IdleHbar
    /\ \E site \in GridSites :
       \E rows \in {t \in GridTables : Len(t) <= MaxCopyRows} :
       \E xdtype \in DtypesOf(Range(Column(rows, "x"))),
          ydtype \in DtypesOf(Range(Column(rows, "y"))) :
            grid = [phase |-> "start", site |-> site, rows |-> rows,
                    xdtype |-> xdtype, ydtype |-> ydtype]

\* x_unique, y_unique, meshgrid, Z = np.zeros_like(X)
GridStart ==
    /\ grid.phase = "start"
    /\ LET x_unique == Unique(Column(grid.rows, "x"))
           y_unique == Unique(Column(grid.rows, "y"))
           cells == (1..Len(y_unique)) \X (1..Len(x_unique))
       IN  grid' = [ phase |-> "loop", site |-> grid.site, rows |-> grid.rows,
                     xdtype |-> grid.xdtype, ydtype |-> grid.ydtype,
                     x_unique |-> x_unique, y_unique |-> y_unique,
                     zdtype |-> ZerosLikeDtype(grid.xdtype, grid.ydtype),
                     Z |-> [c \in cells |-> Rat(0, 1)],
                     writes |-> [c \in cells |-> 0],
                     i |-> 1, j |-> 1 ]
    /\ UNCHANGED <<scriptVars, load, orch, corr, grouped, hbar>>

\* one pass of the inner loop body: Z[j, i] = matching z or np.mean(z)
GridCell ==
    /\ grid.phase = "loop"
    /\ LET i == grid.i
           j == grid.j
           v == CellValueAt(grid.site, grid.rows, grid.x_unique[i], grid.y_unique[j])
           lastJ == j = Len(grid.y_unique)
           lastI == i = Len(grid.x_unique)
       IN  grid' = [grid EXCEPT
                      !.Z[<<j, i>>] = Store(grid.zdtype, v),
                      !.writes[<<j, i>>] = @ + 1,
                      !.j = IF lastJ THEN 1 ELSE j + 1,
                      !.i = IF lastJ THEN i + 1 ELSE i,
                      !.phase = IF lastJ /\ lastI THEN "done" ELSE "loop"]
    /\ UNCHANGED <<scriptVars, load, orch, corr, grouped, hbar>>

NextGrid == GridStart \/ GridCell

SpecGrid == InitGrid /\ [][NextGrid]_vars

SpecGridCopies == InitGridCopies /\ [][NextGrid]_vars

(***************************************************************************)
(* The orchestrator run_all_plots.py: main runs run_plotting_module on     *)
(* each entry of modules in turn.                                          *)
(***************************************************************************)
\* modules, in list order: the family scripts
Modules == [n \in 1..Len(FamilyScripts) |-> FamilyScripts[n].name]

\* return codes a chart subprocess ends with by itself
ReturnCodes == {0, 1, 2}

\* what the child wrote to its pipes, as subprocess.run(capture_output=True,
\* text=True) receives it: nothing, text, or bytes that the locale encoding
\* of the parent cannot decode
Outputs == {"empty", "text", "undecodable"}

\* the locals of one call of run_plotting_module and the working directory
IdleRun ==
    [ original_dir |-> "unbound", cwd |-> "original", finished |-> FALSE, rc |-> 0,
      out |-> "empty", exc |-> "none", ret |-> "none" ]

InitOrch ==
    /\ IdleScript /\ IdleLoad /\ IdleGrid /\ IdleCorr /\ IdleGrouped /\ IdleHbar
    /\ orch = [ phase |-> "main", m |-> 1, attempted |-> <<>>, launched |-> <<>>,
                alive |-> {}, returns |-> <<>>, results |-> <<>>, run |-> IdleRun,
                successful |-> 0, failed |-> 0, mainRet |-> "none", exitCode |-> -1 ]

\* for module_path, module_name in modules: run_plotting_module(...)
OrchCall ==
    /\ orch.phase = "main"
    /\ orch.m <= Len(Modules)
    /\ orch' = [orch EXCEPT !.phase = "getcwd",
                            !.attempted = Append(@, orch.m),
                            !.run = IdleRun]
    /\ UNCHANGED <<scriptVars, load, grid, corr, grouped, hbar>>

\* an exception e raised inside the try block of run_plotting_module: both
\* handlers end with os.chdir(original_dir); return False.  The name
\* original_dir is bound only once os.getcwd() has returned.
OrchHandle(e, o) ==
    IF o.run.original_dir = "unbound"
    THEN [o EXCEPT !.phase = "crashed", !.run.exc = "UnboundLocalError",
                   !.run.ret = "raised"]
    ELSE [o EXCEPT !.phase = "returned", !.run.exc = e, !.run.cwd = "original",
                   !.run.ret = "False"]

\* original_dir = os.getcwd(); it fails when the working directory has been
\* removed
OrchGetCwd ==
    /\ orch.phase = "getcwd"
    /\ \/ orch' = [orch EXCEPT !.phase = "chdir", !.run.original_dir = "original"]
       \/ orch' = OrchHandle("FileNotFoundError", orch)
    /\ UNCHANGED <<scriptVars, load, grid, corr, grouped, hbar>>

\* os.chdir(module_dir); it fails when the module directory is not there
OrchChdir ==
    /\ orch.phase = "chdir"
    /\ \/ orch' = [orch EXCEPT !.phase = "launch", !.run.cwd = "module"]
       \/ orch' = OrchHandle("FileNotFoundError", orch)
    /\ UNCHANGED <<scriptVars, load, grid, corr, grouped, hbar>>

\* subprocess.run([...], timeout=300): the child is started, or starting it
\* fails
OrchLaunch ==
    /\ orch.phase = "launch"
    /\ \/ orch' = [orch EXCEPT !.phase = "wait", !.alive = @ \cup {orch.m},
                               !.launched = Append(@, orch.m)]
       \/ orch' = OrchHandle("OSError", orch)
    /\ UNCHANGED <<scriptVars, load, grid, corr, grouped, hbar>>

StillAlive(alive, m) == alive

\* the children alive once subprocess.run is over with child m: run returns
\* after the child has exited, and on a timeout it kills the child and
\* waits for it before it raises
Reaped(alive, m) == alive \ {m}

PassedAlways(returncode) == TRUE

\* return result.returncode == 0
Passed(returncode) == returncode = 0

\* the child exits by itself before the timeout.  subprocess.run decodes
\* what it captured (text=True) and raises UnicodeDecodeError if it cannot;
\* otherwise the caller prints, changes back to original_dir and returns
\* result.returncode == 0
OrchChildExits ==
    /\ orch.phase = "wait"
    /\ \E rc \in ReturnCodes, out \in Outputs :
         LET o == [orch EXCEPT !.alive = Reaped(@, orch.m), !.run.finished = TRUE,
                               !.run.rc = rc, !.run.out = out]
         IN  IF out = "undecodable"
             THEN orch' = OrchHandle("UnicodeDecodeError", o)
             ELSE orch' = [o EXCEPT !.phase = "returned", !.run.cwd = "original",
                                    !.run.ret = IF Passed(rc) THEN "True" ELSE "False"]
    /\ UNCHANGED <<scriptVars, load, grid, corr, grouped, hbar>>

\* the timeout expires: subprocess.run kills the child, waits for it and
\* raises TimeoutExpired
OrchTimeout ==
    /\ orch.phase = "wait"
    /\ orch' = OrchHandle("TimeoutExpired", [orch EXCEPT !.alive = Reaped(@, orch.m)])
    /\ UNCHANGED <<scriptVars, load, grid, corr, grouped, hbar>>

\* success = run_plotting_module(...); results[module_name] = success;
\* time.sleep(1); next module
OrchRecord ==
    /\ orch.phase = "returned"
    /\ orch' = [orch EXCEPT !.phase = "main", !.m = @ + 1,
                            !.returns = Append(@, orch.run.ret = "True"),
                            !.results = (Modules[orch.m] :> (orch.run.ret = "True")) @@ @]
    /\ UNCHANGED <<scriptVars, load, grid, corr, grouped, hbar>>

SuccessfulLen(results) == Cardinality(DOMAIN results)

\* successful = sum(results.values())
Successful(results) == Cardinality({name \in DOMAIN results : results[name]})

\* the summary: successful = sum(results.values()), failed = the rest,
\* main returns failed == 0 and the script exits with 0 if it is True
OrchSummary ==
    /\ orch.phase = "main"
    /\ orch.m > Len(Modules)
    /\ LET successful == Successful(orch.results)
           failed == Len(Modules) - successful
           success == failed = 0
       IN  orch' = [orch EXCEPT !.phase = "exited",
                                !.successful = successful,
                                !.failed = failed,
                                !.mainRet = IF success THEN "True" ELSE "False",
                                !.exitCode = ExitStatus(success)]
    /\ UNCHANGED <<scriptVars, load, grid, corr, grouped, hbar>>

\* an exception left run_plotting_module and main: traceback, exit code 1
OrchCrash ==
    /\ orch.phase = "crashed"
    /\ orch' = [orch EXCEPT !.phase = "exited", !.exitCode = 1]
    /\ UNCHANGED <<scriptVars, load, grid, corr, grouped, hbar>>

NextOrch ==
    \/ OrchCall
    \/ OrchGetCwd
    \/ OrchChdir
    \/ OrchLaunch
    \/ OrchChildExits
    \/ OrchTimeout
    \/ OrchRecord
    \/ OrchSummary
    \/ OrchCrash

SpecOrch == InitOrch /\ [][NextOrch]_vars

\* the interpreter runs the statements of main and run_plotting_module one
\* after the other, and a child that is waited for exits or is killed at
\* the timeout: a step that can be taken is taken
SpecOrchFair == SpecOrch /\ WF_vars(NextOrch)

(***************************************************************************)
(* The correlation annotation of the basic scatter plot:                   *)
(* correlation = np.corrcoef(df['x'], df['y'])[0, 1].  The columns are     *)
(* converted to float64.  A float64 is an exact rational (rounding is not  *)
(* modelled) or, once a result leaves the range of the format, an          *)
(* infinity; an undefined result is nan.                                   *)
(***************************************************************************)
\* the longest table
MaxPoints == 3

\* the largest magnitude the number format holds (float64: about 1.8e308)
FloatMax == 100

PosInf == [n |-> 1, d |-> 0]

NegInf == [n |-> -1, d |-> 0]

NaN == [n |-> 0, d |-> 0]

IsNaN(a) == a.d = 0 /\ a.n = 0

IsInf(a) == a.d = 0 /\ a.n # 0

IsFinite(a) == a.d # 0

Sign(a) == IF a.n > 0 THEN 1 ELSE IF a.n < 0 THEN -1 ELSE 0

\* the result of an operation as the format holds it: out of range is inf
Overflow(a) ==
    IF Abs(a.n) > FloatMax * a.d THEN (IF a.n > 0 THEN PosInf ELSE NegInf) ELSE a

FAdd(a, b) ==
    IF IsNaN(a) \/ IsNaN(b) THEN NaN
    ELSE IF IsInf(a) /\ IsInf(b) THEN (IF a = b THEN a ELSE NaN)
    ELSE IF IsInf(a) THEN a
    ELSE IF IsInf(b) THEN b
    ELSE Overflow(RatAdd(a, b))

FNeg(a) == [n |-> -a.n, d |-> a.d]

FSub(a, b) == FAdd(a, FNeg(b))

FMul(a, b) ==
    IF IsNaN(a) \/ IsNaN(b) THEN NaN
    ELSE IF IsInf(a) \/ IsInf(b)
         THEN (IF a.n = 0 \/ b.n = 0 THEN NaN
               ELSE IF Sign(a) = Sign(b) THEN PosInf ELSE NegInf)
    ELSE Overflow(Rat(a.n * b.n, a.d * b.d))

\* a / b for a, b >= 0
FDiv(a, b) ==
    IF IsNaN(a) \/ IsNaN(b) THEN NaN
    ELSE IF IsInf(a) /\ IsInf(b) THEN NaN
    ELSE IF a.n = 0 /\ b.n = 0 THEN NaN
    ELSE IF IsInf(b) THEN Rat(0, 1)
    ELSE IF IsInf(a) \/ b.n = 0 THEN PosInf
    ELSE Rat(a.n * b.d, a.d * b.n)

RECURSIVE FSum(_)
FSum(column) ==
    IF column = <<>> THEN Rat(0, 1) ELSE FAdd(Head(column), FSum(Tail(column)))

\* the values of the x and y columns of the CSV
XData == {1, 2, 3, 12}

YData == {2, 4, 6, 24}

\* the tables read from the CSV: rows in file order
ScatterTables == UNION { [1..n -> [x : XData, y : YData]] : n \in 1..MaxPoints }

\* array(m, dtype=float64): the column as floats
AsFloat(rows, name) == [n \in DOMAIN rows |-> Rat(rows[n][name], 1)]

\* avg = average(X, axis=1)
Average(column) ==
    LET t == FSum(column)
    IN  IF IsFinite(t) THEN Rat(t.n, t.d * Len(column)) ELSE t

DeviationsUncentred(column) == column

\* X -= avg[:, None]
Deviations(column) == LET avg == Average(column) IN [n \in DOMAIN column |-> FSub(column[n], avg)]

\* c = dot(X, X_T.conj()); c *= np.true_divide(1, fact) with fact = N - 1:
\* one entry of the covariance matrix (for N = 1 the factor is 1/0 = inf)
Cov(u, v) ==
    LET du == Deviations(u)
        dv == Deviations(v)
        dot == FSum([n \in DOMAIN u |-> FMul(du[n], dv[n])])
        fact == Len(u) - 1
    IN  IF fact = 0 THEN FMul(dot, PosInf)
        ELSE IF IsFinite(dot) THEN Rat(dot.n, dot.d * fact) ELSE dot

\* stddev = sqrt(diag(c)); c /= stddev[:, None]; c /= stddev[None, :];
\* np.clip(c, -1, 1): entry [0, 1], held as its sign and its square
Corrcoef(c_xx, c_yy, c_xy) ==
    LET square == IF IsFinite(c_xy) THEN Rat(c_xy.n * c_xy.n, c_xy.d * c_xy.d)
                  ELSE IF IsNaN(c_xy) THEN NaN ELSE PosInf
        sq == FDiv(FDiv(square, c_xx), c_yy)
    IN  IF IsNaN(sq) THEN [sign |-> 0, sq |-> NaN]
        ELSE IF IsInf(sq) \/ RatLess(Rat(1, 1), sq) THEN [sign |-> Sign(c_xy), sq |-> Rat(1, 1)]
        ELSE [sign |-> Sign(c_xy), sq |-> sq]

InitCorr ==
    /\ IdleScript /\ IdleLoad /\ IdleGrid /\ IdleOrch /\ IdleGrouped /\ IdleHbar
    /\ \E rows \in ScatterTables : corr = [phase |-> "data", rows |-> rows]

\* c = cov(x, y)
CorrCov ==
    /\ corr.phase = "data"
    /\ LET x == AsFloat(corr.rows, "x")
           y == AsFloat(corr.rows, "y")
       IN  corr' = [ phase |-> "cov", rows |-> corr.rows,
                     c_xx |-> Cov(x, x), c_yy |-> Cov(y, y), c_xy |-> Cov(x, y) ]
    /\ UNCHANGED <<scriptVars, load, grid, orch, grouped, hbar>>

\* the normalisation by the standard deviations and the clip
CorrNormalize ==
    /\ corr.phase = "cov"
    /\ corr' = [ phase |-> "done", rows |-> corr.rows,
                 c_xx |-> corr.c_xx, c_yy |-> corr.c_yy, c_xy |-> corr.c_xy,
                 correlation |-> Corrcoef(corr.c_xx, corr.c_yy, corr.c_xy) ]
    /\ UNCHANGED <<scriptVars, load, grid, orch, grouped, hbar>>

NextCorr ==
    \/ CorrCov
    \/ CorrNormalize

SpecCorr == InitCorr /\ [][NextCorr]_vars

(***************************************************************************)
(* The grouped charts: 3D scatter by group, parametric 3D by curve_type,   *)
(* basic box plot by group.  Only the label column of the table matters.   *)
(***************************************************************************)
\* the longest table
MaxGroupRows == 3

\* the chart functions that draw one series per label
GroupedCharts == {"scatter_plot_3d", "parametric_3d_plot", "basic_box_plot"}

\* the labels of the rows; read_csv turns an empty cell into NaN
GroupLabels == {"A", "B", "nan"}

GroupTables == UNION { [1..n -> GroupLabels] : n \in 1..MaxGroupRows }

\* data[column] == label, row by row: NaN is equal to nothing, itself
\* included
LabelEq(a, b) == a # "nan" /\ b # "nan" /\ a = b

\* data[data[column] == label]: the rows of the series of label
Selected(rows, label) == {n \in DOMAIN rows : LabelEq(rows[n], label)}

InitGrouped ==
    /\ IdleScript /\ IdleLoad /\ IdleGrid /\ IdleOrch /\ IdleCorr /\ IdleHbar
    /\ \E c \in GroupedCharts, rows \in GroupTables :
         grouped = [phase |-> "table", chart |-> c, rows |-> rows]

\* groups = data[column].unique(); colors = get_color_palette(len(groups))
GroupedStart ==
    /\ grouped.phase = "table"
    /\ LET groups == PdUnique(grouped.rows)
       IN  grouped' = [ phase |-> "loop", chart |-> grouped.chart, rows |-> grouped.rows,
                        groups |-> groups, colors |-> Len(groups), i |-> 1,
                        series |-> <<>> ]
    /\ UNCHANGED <<scriptVars, load, grid, orch, corr, hbar>>

\* one pass of for i, group in enumerate(groups) (in the box plot: one
\* element of the list comprehension over the groups): the rows of the
\* group are drawn as one series
GroupedDraw ==
    /\ grouped.phase = "loop"
    /\ LET label == grouped.groups[grouped.i]
       IN  grouped' = [grouped EXCEPT
                         !.series = Append(@, [label |-> label,
                                               rows |-> Selected(grouped.rows, label)]),
                         !.i = @ + 1,
                         !.phase = IF grouped.i = Len(grouped.groups) THEN "done" ELSE "loop"]
    /\ UNCHANGED <<scriptVars, load, grid, orch, corr, hbar>>

NextGrouped == GroupedStart \/ GroupedDraw

SpecGrouped == InitGrouped /\ [][NextGrouped]_vars

(***************************************************************************)
(* The horizontal bar chart: df.sort_values('score', ascending=True), then *)
(* ax.barh(df['item'], df['score'], ...).                                  *)
(***************************************************************************)
\* the longest table
MaxBars == 3

BarItems == {"p", "q"}

\* the scores; read_csv turns an empty cell into NaN
BarScores == {Rat(1, 1), Rat(2, 1), NaN}

BarTables == UNION { [1..n -> [item : BarItems, score : BarScores]] : n \in 1..MaxBars }

\* the orders of the n row numbers
RowOrders(n) == {f \in [1..n -> 1..n] : \A a, b \in 1..n : f[a] = f[b] => a = b}

SortValuesKeepsOrder(rows) == {[n \in DOMAIN rows |-> n]}

\* the row orders df.sort_values('score', ascending=True) can return: the
\* scores ascending, the missing ones last (na_position='last'); the
\* default sort is not stable, rows of equal score come in any order
SortValues(rows) ==
    { f \in RowOrders(Len(rows)) :
        \A a, b \in DOMAIN rows : a < b =>
            LET s == rows[f[a]].score
                t == rows[f[b]].score
            IN  /\ IsNaN(s) => IsNaN(t)
                /\ (IsFinite(s) /\ IsFinite(t)) => ~RatLess(t, s) }

InitHbar ==
    /\ IdleScript /\ IdleLoad /\ IdleGrid /\ IdleOrch /\ IdleCorr /\ IdleGrouped
    /\ \E rows \in BarTables : hbar = [phase |-> "table", rows |-> rows]

\* df = df.sort_values('score', ascending=True)
HbarSort ==
    /\ hbar.phase = "table"
    /\ \E f \in SortValues(hbar.rows) :
         hbar' = [ phase |-> "sorted", rows |-> hbar.rows,
                   df |-> [n \in DOMAIN hbar.rows |-> hbar.rows[f[n]]] ]
    /\ UNCHANGED <<scriptVars, load, grid, orch, corr, grouped>>

\* colors = get_color_palette(len(df)); ax.barh(df['item'], df['score'], ...)
HbarDraw ==
    /\ hbar.phase = "sorted"
    /\ hbar' = [ phase |-> "done", rows |-> hbar.rows, df |-> hbar.df,
                 colors |-> Len(hbar.df), bars |-> hbar.df ]
    /\ UNCHANGED <<scriptVars, load, grid, orch, corr, grouped>>

NextHbar == HbarSort \/ HbarDraw

SpecHbar == InitHbar /\ [][NextHbar]_vars

(***************************************************************************)
(* Properties of the chart functions and their scripts.                    *)
(***************************************************************************)
\* C1: in a standalone script whose CSV file does not exist, the create
\* function returns False, save_plot is never called, no image is written
\* and the process exits with code 1.
C1_MissingFileFails ==
    (~CurScript.family /\ call.exists = "no") =>
        /\ call.ret = "False"
        /\ ~call.saveCalled
        /\ ~call.saved
        /\ pc \in {"returned", "exited"}
        /\ (pc = "exited" => exitCode = 1)

C1_Witness ==
    /\ ~CurScript.family
    /\ call.exists = "no"
    /\ pc = "exited"
    /\ exitCode = 1

\* C2: a family script exits with code 0 only if all of its charts were
\* created, and with code 1 if the data of one of its charts was missing or
\* invalid.
C2_FamilyExitCode ==
    (CurScript.family /\ pc = "exited") =>
        /\ (exitCode = 0 => success_count = Len(CurScript.charts))
        /\ (dataBad => exitCode = 1)

\* C3: a chart function whose CSV was read but lacks a required column
\* returns False, and no exception leaves the function.
C3_MissingColumnFails ==
    ( /\ call.chart # "none"
      /\ call.read = "ok"
      /\ pc # "columns"
      /\ \E c \in Range(Charts[call.chart].required) : c \notin call.table ) =>
        /\ call.ret = "False"
        /\ pc \in {"returned", "main", "exited"}
        /\ ~call.saveCalled

C3_Witness ==
    /\ pc = "returned"
    /\ call.read = "ok"
    /\ \E c \in Range(Charts[call.chart].required) : c \notin call.table
    /\ call.ret = "False"

\* C4: every exception raised inside a chart function while loading,
\* rendering or saving is caught there and turned into a False return; none
\* reaches the caller.
C4_AllExceptionsCaught ==
    (call.exc # "none") => (call.ret = "False" /\ pc # "uncaught")

(***************************************************************************)
(* Properties of check_and_load_csv.                                       *)
(***************************************************************************)
LoadDone == load.phase = "done"

LoadRequired == Range(Charts[load.site].required)

\* C8 as stated: exactly three outcomes - FileNotFoundError iff the path
\* does not exist, otherwise ValueError if a required column is absent,
\* otherwise the loaded table.
C8_ThreeOutcomes ==
    LoadDone =>
        /\ (load.out.kind = "raise" /\ load.out.exc = "FileNotFoundError") <=> ~load.exists
        /\ load.out.kind = "raise" => load.out.exc \in {"FileNotFoundError", "ValueError"}
        /\ load.exists /\ load.readErr = "none" =>
             IF \E c \in LoadRequired : c \notin load.columns
             THEN load.out.kind = "raise" /\ load.out.exc = "ValueError"
             ELSE load.out.kind = "return" /\ load.out.table = load.columns
        /\ load.out.kind = "return" => LoadRequired \subseteq load.out.table

\* C8 amended: FileNotFoundError iff the path does not exist; otherwise, if
\* read_csv fails, ValueError for an empty file and the reader's own
\* exception for any other failure; otherwise ValueError if a required
\* column is absent; otherwise the loaded table, unchanged.  A returned
\* table never lacks a required column.
C8_Outcomes ==
    LoadDone =>
        /\ (load.out.kind = "raise" /\ load.out.exc = "FileNotFoundError") <=> ~load.exists
        /\ load.exists /\ load.readErr = "EmptyDataError" =>
             load.out.kind = "raise" /\ load.out.exc = "ValueError"
        /\ load.exists /\ load.readErr \notin {"none", "EmptyDataError"} =>
             load.out.kind = "raise" /\ load.out.exc = load.readErr
        /\ load.exists /\ load.readErr = "none" =>
             IF \E c \in LoadRequired : c \notin load.columns
             THEN load.out.kind = "raise" /\ load.out.exc = "ValueError"
             ELSE load.out.kind = "return" /\ load.out.table = load.columns
        /\ load.out.kind = "return" => LoadRequired \subseteq load.out.table

\* the outcome the original statement leaves out: the path exists, read_csv
\* fails with an OSError and check_and_load_csv lets it through
C8_Witness ==
    /\ LoadDone
    /\ load.exists
    /\ load.readErr = "OSError"
    /\ load.out.kind = "raise"
    /\ load.out.exc = "OSError"

\* position of column c in the list s (0 if absent)
Pos(s, c) == IF \E n \in DOMAIN s : s[n] = c THEN CHOOSE n \in DOMAIN s : s[n] = c ELSE 0

\* the list named holds exactly the columns of required that are not in
\* columns, each once, in the order of required
NamesExactlyTheAbsent(named, required, columns) ==
    /\ \A n \in DOMAIN named : named[n] \in Range(required) /\ named[n] \notin columns
    /\ \A c \in Range(required) : c \notin columns => \E n \in DOMAIN named : named[n] = c
    /\ \A m, n \in DOMAIN named : m < n => Pos(required, named[m]) < Pos(required, named[n])

\* C9: when the column check fails, the columns named in the error are
\* exactly the required columns absent from the loaded table, each once, in
\* the order of the required-column list.
C9_NamedColumns ==
    ( /\ call.chart # "none"
      /\ call.read = "ok"
      /\ pc # "columns"
      /\ \E c \in Range(Charts[call.chart].required) : c \notin call.table ) =>
        /\ call.missing # <<>>
        /\ NamesExactlyTheAbsent(call.missing, Charts[call.chart].required, call.table)

\* a check that fails with one required column present and two absent
C9_Witness ==
    /\ pc = "returned"
    /\ call.read = "ok"
    /\ Len(call.missing) = 2
    /\ \E c \in Range(Charts[call.chart].required) : c \in call.table

\* the call of the chart function is over
CallOver == pc \in {"returned", "exited"} \/ (pc = "main" /\ call.chart # "none")

\* the files the chart types read, and the files they write
InputPaths == {CsvPath(c) : c \in ChartNames}

OutputPaths == {PngPath(c) : c \in ChartNames}

\* C13: the input paths of the chart types are pairwise distinct, their
\* output paths are pairwise distinct, and no output path is an input
\* path; the file a chart function has read is the input of no other chart
\* type and the file it has written is the output of no other chart type
\* and the input of none.
C13_DistinctFiles ==
    /\ Cardinality(InputPaths) = Cardinality(ChartNames)
    /\ Cardinality(OutputPaths) = Cardinality(ChartNames)
    /\ InputPaths \cap OutputPaths = {}
    /\ call.csv # NoPath =>
         /\ \A c \in ChartNames : CsvPath(c) = call.csv => c = call.chart
         /\ call.csv \notin OutputPaths
    /\ call.file # NoPath =>
         /\ \A c \in ChartNames : PngPath(c) = call.file => c = call.chart
         /\ call.file \notin InputPaths

\* the second chart of a family script has read its CSV and saved its image
C13_Witness ==
    /\ CurScript.family
    /\ Len(mainLog.called) = 2
    /\ pc = "returned"
    /\ call.csv = CsvPath(call.chart)
    /\ call.file = PngPath(call.chart)

\* the case of C14: the standalone basic bar chart script, its CSV exists
\* and has the columns category and value, and the rendering raised nothing
BasicBarRendered ==
    /\ ~CurScript.family
    /\ call.chart = "basic_bar_chart"
    /\ call.exists = "yes"
    /\ call.read = "ok"
    /\ {"category", "value"} \subseteq call.table
    /\ call.rendered
    /\ CallOver

BasicBarSaved ==
    /\ call.ret = "True"
    /\ call.saved
    /\ call.file = <<"bar_chart", "plot", "basic_bar_chart.png">>
    /\ pc = "exited" => exitCode = 0

\* C14 as stated: in the basic bar chart script, when the CSV exists, has
\* the columns category and value and the renderer raises nothing,
\* create_basic_bar_chart returns True, the image is saved to
\* ../plot/basic_bar_chart.png and the process exits with code 0.
C14_BasicBarSucceeds == BasicBarRendered => BasicBarSaved

\* C14 amended: the same, provided save_plot raises nothing either (the
\* plot directory can be created and the image written).
C14_BasicBarSucceedsIfSaved == (BasicBarRendered /\ call.exc = "none") => BasicBarSaved

\* the basic bar chart script has saved its image and exited with 0
C14_Witness ==
    /\ BasicBarRendered
    /\ call.exc = "none"
    /\ pc = "exited"
    /\ exitCode = 0
    /\ call.file = PngPath("basic_bar_chart")

\* s is the list t or a beginning of it
IsPrefix(s, t) == Len(s) <= Len(t) /\ \A n \in DOMAIN s : s[n] = t[n]

\* C19: the main of a family script calls every chart function of the
\* family exactly once, in list order, whatever the earlier ones returned:
\* when the script ends all of them have been called.  The success count is
\* the number of calls that returned True and never exceeds the total.
C19_FamilyMain ==
    CurScript.family =>
        /\ IsPrefix(mainLog.called, CurScript.charts)
        /\ pc = "exited" => mainLog.called = CurScript.charts
        /\ success_count = Cardinality({n \in DOMAIN mainLog.rets : mainLog.rets[n]})
        /\ success_count <= Len(CurScript.charts)

\* C20: the steps of a chart function happen in the order existence check,
\* CSV read, column check, style and figure, rendering, save.  After a
\* failed existence check the file has not been read; after a failed
\* existence or column check there is no figure, no style change and no
\* output file.
C20_StepOrder ==
    call.chart # "none" =>
        /\ call.read # "no" => call.exists = "yes"
        /\ (call.styled \/ call.figure) =>
              /\ call.read = "ok"
              /\ Range(Charts[call.chart].required) \subseteq call.table
        /\ call.rendered => call.styled /\ call.figure
        /\ call.saveCalled => call.rendered
        /\ call.saved => call.saveCalled
        /\ call.exists = "no" => call.read = "no" /\ call.csv = NoPath
        /\ (call.exists = "no" \/ call.missing # <<>>) =>
              /\ ~call.styled /\ ~call.figure /\ ~call.rendered
              /\ ~call.saveCalled /\ ~call.saved /\ call.file = NoPath

\* a chart function that has been through all six steps
C20_Witness ==
    /\ pc = "returned"
    /\ call.exists = "yes" /\ call.read = "ok" /\ call.styled /\ call.figure
    /\ call.rendered /\ call.saved

\* C21: a chart function returns True only if save_plot was called for
\* the output path of that chart and completed without raising.
C21_TrueOnlyIfSaved ==
    call.ret = "True" =>
        /\ call.saveCalled
        /\ call.saved
        /\ call.file = PngPath(call.chart)
        /\ call.exc = "none"

\* a chart function has returned True with its image saved
C21_Witness ==
    /\ pc = "returned"
    /\ call.ret = "True"
    /\ call.saved
    /\ call.file = PngPath(call.chart)

\* the case of C22: the inner try block of a surface, wireframe or contour
\* function raised, and the call is over
GridFailed ==
    /\ call.chart \in GridCharts
    /\ call.gridExc # "none"
    /\ CallOver

\* C22 as stated: an exception raised while building or drawing the grid is
\* absorbed: the function draws the scatter instead, goes on to the save
\* step and returns True if the save succeeds; it returns False only if the
\* save fails.
C22_GridFailureAbsorbed ==
    GridFailed =>
        /\ call.fallback = "drawn"
        /\ call.saveCalled
        /\ (call.ret = "True") <=> call.saved
        /\ call.ret \in {"True", "False"}

\* C22 amended: the exception is absorbed and the scatter is attempted; if
\* the scatter and the rest of the rendering raise nothing the function
\* goes on to the save step and returns True if and only if the save
\* succeeds; if one of them raises, the function returns False without
\* saving.
C22_GridFailureAbsorbedIfScatterDraws ==
    GridFailed =>
        /\ call.fallback # "no"
        /\ call.ret \in {"True", "False"}
        /\ (call.fallback = "drawn" /\ call.rendered) =>
              /\ call.saveCalled
              /\ (call.ret = "True") <=> call.saved
        /\ (call.fallback = "failed" \/ ~call.rendered) =>
              /\ call.ret = "False"
              /\ ~call.saveCalled

\* gridding failed, the scatter was drawn, the image saved, True returned
C22_Witness ==
    /\ GridFailed
    /\ call.fallback = "drawn"
    /\ call.saved
    /\ call.ret = "True"

(***************************************************************************)
(* Properties of the grid reconstruction.                                  *)
(***************************************************************************)
GridDone == grid.phase = "done"

GridRowsAt(i, j) == Mask(grid.rows, grid.x_unique[i], grid.y_unique[j])

\* C5: on a table in which every (x, y) pair of unique-x times unique-y is
\* in exactly one row, every cell Z[j][i] equals the z of the row with
\* x = x_unique[i] and y = y_unique[j], whatever the types of the columns.
C5_RoundTrip ==
    ( /\ GridDone
      /\ \A i \in DOMAIN grid.x_unique, j \in DOMAIN grid.y_unique :
            Cardinality(GridRowsAt(i, j)) = 1 ) =>
        \A i \in DOMAIN grid.x_unique, j \in DOMAIN grid.y_unique :
            \A n \in GridRowsAt(i, j) : grid.Z[<<j, i>>] = grid.rows[n].z

\* C6: every cell whose (x, y) pair has no row holds the arithmetic mean of
\* the z values of all rows, whatever the types of the x and y columns.
C6_MeanFallback ==
    GridDone =>
        \A i \in DOMAIN grid.x_unique, j \in DOMAIN grid.y_unique :
            GridRowsAt(i, j) = {} =>
                LET total == RatSum(Column(grid.rows, "z"))
                IN  grid.Z[<<j, i>>].n * total.d * Len(grid.rows)
                        = total.n * grid.Z[<<j, i>>].d

\* C7: the cell of an (x, y) pair that several rows share takes the z of
\* the first of these rows in file order.
C7_FirstRowWins ==
    GridDone =>
        \A i \in DOMAIN grid.x_unique, j \in DOMAIN grid.y_unique :
            Cardinality(GridRowsAt(i, j)) > 1 =>
                \E n \in GridRowsAt(i, j) :
                    /\ \A m \in GridRowsAt(i, j) : n <= m
                    /\ grid.Z[<<j, i>>] = grid.rows[n].z

\* the cells of the grid: one row per value of y_unique, one column per
\* value of x_unique
GridCells == (1..Len(grid.y_unique)) \X (1..Len(grid.x_unique))

\* s holds exactly the values of the set S, each once, in ascending order
AscendingDistinct(s, S) ==
    /\ Range(s) = S
    /\ Len(s) = Cardinality(S)
    /\ \A m, n \in DOMAIN s : m < n => RatLess(s[m], s[n])

C10_EveryModuleLaunched ==
    /\ \A n \in DOMAIN orch.attempted : orch.attempted[n] = n
    /\ orch.phase = "exited" => Len(orch.attempted) = Len(Modules)

\* a call of run_plotting_module is over: it returned or an exception left it
RunOver == orch.phase \in {"returned", "crashed"}

\* C11: run_plotting_module returns True if and only if the subprocess
\* finished within the timeout with return code 0; a non-zero return code,
\* a timeout and an exception while launching each make it return False,
\* whatever the subprocess printed.
C11_PassedIffZero ==
    RunOver =>
        /\ orch.run.ret \in {"True", "False"}
        /\ (orch.run.ret = "True") <=> (orch.run.finished /\ orch.run.rc = 0)

\* C12: at most one chart subprocess is alive at any moment, it is the one
\* of the module being run, and none is alive while main is between two
\* modules or run_plotting_module is about to launch the next one.
C12_OneChildAlive ==
    /\ Cardinality(orch.alive) <= 1
    /\ orch.alive \subseteq {orch.m}
    /\ orch.phase # "wait" => orch.alive = {}

\* the second module's child is running after the first one's has been
\* killed at the timeout or has exited
C12_Witness ==
    /\ orch.phase = "wait"
    /\ orch.launched = <<1, 2>>
    /\ orch.alive = {2}
    /\ orch.returns = <<FALSE>>

\* C16: in the summary successful + failed is the number of modules,
\* successful is the number of calls of run_plotting_module that returned
\* True, main returns True if and only if failed is 0, and the process
\* exits with 0 if main returned True and with 1 otherwise.
C16_Summary ==
    /\ orch.mainRet # "none" =>
         /\ orch.successful + orch.failed = Len(Modules)
         /\ Len(orch.returns) = Len(Modules)
         /\ orch.successful = Cardinality({n \in DOMAIN orch.returns : orch.returns[n]})
         /\ (orch.mainRet = "True") <=> (orch.failed = 0)
    /\ orch.phase = "exited" =>
         /\ orch.exitCode \in {0, 1}
         /\ (orch.exitCode = 0) <=> (orch.mainRet = "True")

\* a summary with modules of both kinds: main returns False, exit code 1
C16_Witness ==
    /\ orch.phase = "exited"
    /\ orch.mainRet = "False"
    /\ orch.successful >= 2
    /\ orch.failed >= 2
    /\ orch.exitCode = 1

\* C17: on every path out of run_plotting_module the working directory is
\* the one of before the call, and no exception leaves the call.
C17_CwdRestored ==
    RunOver =>
        /\ orch.run.cwd = "original"
        /\ orch.run.exc # "UnboundLocalError"
        /\ orch.phase = "returned"

\* C18: the orchestrator terminates: main gets through all six modules,
\* prints the summary and returns.
C18_Terminates ==
    <>(orch.phase = "exited" /\ orch.mainRet # "none" /\ Len(orch.returns) = Len(Modules))

(***************************************************************************)
(* Properties of the correlation annotation.                               *)
(***************************************************************************)
CorrDone == corr.phase = "done"

\* y is a linear function of x with positive slope and x takes at least
\* two values: some two rows with different x fix a rising line on which
\* every row lies
LinearRising(rows) ==
    \E i, j \in DOMAIN rows :
        /\ rows[i].x # rows[j].x
        /\ (rows[j].y - rows[i].y) * (rows[j].x - rows[i].x) > 0
        /\ \A n \in DOMAIN rows :
              (rows[n].y - rows[i].y) * (rows[j].x - rows[i].x)
                  = (rows[j].y - rows[i].y) * (rows[n].x - rows[i].x)

IsOne(r) == r.sign = 1 /\ r.sq = Rat(1, 1)

GroupedDone == grouped.phase = "done"

\* the number of the first row with label c
FirstRow(rows, c) == CHOOSE n \in DOMAIN rows : rows[n] = c /\ \A m \in 1..(n - 1) : rows[m] # c

HbarDone == hbar.phase = "done"

\* bars is the list rows in some order
IsPermutationOf(bars, rows) ==
    /\ Len(bars) = Len(rows)
    /\ \E f \in RowOrders(Len(rows)) : \A n \in DOMAIN rows : bars[n] = rows[f[n]]

\* a <= b as the numbers compare: false when one of them is NaN
FLeq(a, b) == IsFinite(a) /\ IsFinite(b) /\ ~RatLess(b, a)

\* C26 as stated: the (item, score) pairs passed to the renderer are the
\* rows of the table in an order in which every score is less than or
\* equal to the next one.
C26_BarsAscending ==
    HbarDone =>
        /\ IsPermutationOf(hbar.bars, hbar.rows)
        /\ \A n \in 1..(Len(hbar.bars) - 1) :
              FLeq(hbar.bars[n].score, hbar.bars[n + 1].score)

\* C26 amended: the pairs passed to the renderer are the rows of the table
\* in an order in which the rows that have a score come first, every score
\* less than or equal to the next one, and the rows whose score is missing
\* come last.
C26_BarsAscendingMissingLast ==
    HbarDone =>
        /\ IsPermutationOf(hbar.bars, hbar.rows)
        /\ \A n \in 1..(Len(hbar.bars) - 1) :
              \/ IsNaN(hbar.bars[n + 1].score)
              \/ FLeq(hbar.bars[n].score, hbar.bars[n + 1].score)

\* a table with the missing score first and the scores descending, drawn
\* as 1, 2, missing
C26_Witness ==
    /\ HbarDone
    /\ Len(hbar.rows) = 3
    /\ IsNaN(hbar.rows[1].score)
    /\ hbar.rows[2].score = Rat(2, 1)
    /\ hbar.rows[3].score = Rat(1, 1)
    /\ hbar.bars[1].score = Rat(1, 1)
    /\ hbar.bars[2].score = Rat(2, 1)
    /\ IsNaN(hbar.bars[3].score)

====
